---- MODULE Spec2Model ----
(***************************************************************************)
(* diy-dyndns (main.go): a process that reads domains.yml and DO_TOKEN,    *)
(* registers a gocron job and, on every run of the job, resolves the       *)
(* external IP, lists the DNS records of a domain and pushes an update     *)
(* for every stale A record of the apex or of a configured subdomain.      *)
(*                                                                         *)
(* The network is the environment: every HTTP exchange has an outcome      *)
(* drawn from the outcomes the Go code distinguishes.  One action is one   *)
(* blocking step of the program (a startup function, or one network        *)
(* exchange of CheckDomain together with the code around it).              *)
(***************************************************************************)
EXTENDS Integers, Sequences, FiniteSets, TLC

\* ------------------------------------------------------------------ bounds
\* longest subdomain list of a DomainConfig
MaxSubdomains == 1
\* most records in the zone of the reconciled domain
MaxRecords == 2

\* ------------------------------------------------------------ value domains
Whitespace == {" ", "\n"}

\* response bodies of the IP discovery endpoint, as character sequences
Bodies == { <<"1">>, <<"2", "\n">>, <<" ", "1", "\n">> }

\* record data held by the provider before any update of this process
IPs == { <<"1">>, <<"2">> }

SubNames == {"www"}

RECURSIVE SeqsUpTo(_, _)
SeqsUpTo(S, n) ==
    IF n = 0 THEN { <<>> }
    ELSE LET shorter == SeqsUpTo(S, n - 1)
         IN  shorter \cup { Append(s, x) : s \in shorter, x \in S }

\* DomainConfig values (main.go:20-23)
\* subdomain lists: "www" up to MaxSubdomains times, or the apex marker itself
SubLists == SeqsUpTo(SubNames, MaxSubdomains) \cup { <<"@">> }

DomainConfig1 == { [Domain |-> "example.com", Subdomains |-> s] : s \in SubLists }
DomainConfig2 == [Domain |-> "example.org", Subdomains |-> <<>>]

DomainNames == {"example.com", "example.org"}

\* the decoded contents of domains.yml: zero, one or two domains
Configs ==
    { [Domains |-> <<>>] }
      \cup { [Domains |-> <<d>>] : d \in DomainConfig1 }
      \cup { [Domains |-> <<d, DomainConfig2>>] : d \in DomainConfig1 }

\* what the configuration source holds: a file viper cannot read, a file
\* whose contents do not decode into Config, or a well-formed file
ConfigSources ==
    { [status |-> "unreadable", config |-> [Domains |-> <<>>]],
      [status |-> "malformed", config |-> [Domains |-> <<>>]] }
      \cup { [status |-> "ok", config |-> c] : c \in Configs }

Tokens == {"", "tok"}

\* DomainRecord values the provider can hold (main.go:26-34); the id is the
\* position in the zone, so ids are unique within a zone
RecordShapes ==
    { [Type |-> "A", Name |-> n, Data |-> d] : n \in {"@", "www"}, d \in IPs }
      \cup { [Type |-> "CNAME", Name |-> "www", Data |-> <<"e">>] }

WithIDs(shapes) ==
    [ k \in 1..Len(shapes) |->
        [ID |-> k, Type |-> shapes[k].Type, Name |-> shapes[k].Name,
         Data |-> shapes[k].Data] ]

Zones == { WithIDs(s) : s \in SeqsUpTo(RecordShapes, MaxRecords) }

OrgZone == WithIDs(<< [Type |-> "A", Name |-> "@", Data |-> <<"2">>] >>)

\* ------------------------------------------------------------------- state
VARIABLES
    cfgSrc,         \* the configuration source (domains.yml)
    token,          \* the environment variable DO_TOKEN
    hostBody,       \* what the IP discovery endpoint answers now
    provider,       \* the provider's zones: domain name -> records
    pc,             \* "init", "main", "blocked" (in <-gocron.Start()), "exited"
    exitCode,       \* process exit status, -1 while running
    config,         \* the global config (main.go:44)
    domainConfig,   \* the loop variable of main.go:59 (index into config.Domains)
    jobs,           \* number of jobs registered with gocron
    pending,        \* jobs of the current tick that still have to run
    ran,            \* domains reconciled since the current tick
    cpc,            \* position of CheckDomain: "idle", "ip", "list", "records",
                    \* or how the last cycle ended: "ipfail", "listfail", "done"
    externalIP,     \* CheckDomain's local externalIP
    domainRecords,  \* CheckDomain's local domainRecords
    ri,             \* index of the record of the outer loop (main.go:84)
    ci,             \* index of the candidate name: 0 is "@", k the k-th subdomain
    calls,          \* network calls of the current cycle, in order
    stdout,         \* lines written to os.Stdout since the cycle (or process) began
    stderr,         \* lines written to os.Stderr since the cycle (or process) began
    prev            \* summary of the cycle before the current one

vars == << cfgSrc, token, hostBody, provider, pc, exitCode, config, domainConfig,
           jobs, pending, ran, cpc, externalIP, domainRecords, ri, ci, calls,
           stdout, stderr, prev >>

envVars == << cfgSrc, token, hostBody, provider >>
cycleVars == << cpc, externalIP, domainRecords, ri, ci, calls, prev, ran >>

NoConfig == [Domains |-> <<>>]
NoPrev == [end |-> "idle", ip |-> <<>>, settled |-> FALSE, updated |-> FALSE]

\* --------------------------------------------------------- pure functions
\* strings.TrimSpace (main.go:113): drop leading and trailing white space
RECURSIVE TrimLeft(_)
TrimLeft(s) ==
    IF s # <<>> /\ Head(s) \in Whitespace THEN TrimLeft(Tail(s)) ELSE s

RECURSIVE TrimRight(_)
TrimRight(s) ==
    IF s # <<>> /\ s[Len(s)] \in Whitespace
    THEN TrimRight(SubSeq(s, 1, Len(s) - 1)) ELSE s

\* a trim of the leading white space only
TrimSpace_LeftOnly(s) == TrimLeft(s)

TrimSpace(s) == TrimRight(TrimLeft(s))

\* ParseConfig with the error of viper.Unmarshal dropped and that of
\* viper.ReadInConfig logged only
ParseConfig_DropsError(src) == [config |-> src.config, err |-> FALSE]

\* ParseConfig (main.go:172-185): the config and whether err is non-nil
ParseConfig(src) ==
    IF src.status = "ok"
    THEN [config |-> src.config, err |-> FALSE]
    ELSE [config |-> NoConfig, err |-> TRUE]

\* CheckRecord's condition without the test of the record type
Matches_AnyType(record, recordName) == record.Name = recordName

\* CheckRecord's condition without the test of the record name
Matches_AnyName(record, recordName) == record.Type = "A"

\* the condition of CheckRecord (main.go:93)
Matches(record, recordName) ==
    record.Type = "A" /\ record.Name = recordName

\* CheckRecord without the comparison of the data: every match is pushed
NeedsUpdate_Always(ip, record) == TRUE

\* the condition of the inner if of CheckRecord (main.go:95)
NeedsUpdate(ip, record) == ip # record.Data

\* CheckRecord with the write of the record moved inside the inner if
CheckRecordPlan_ReportOnlyStale(record, recordName, ip) ==
    [report |-> Matches(record, recordName) /\ NeedsUpdate(ip, record),
     update |-> Matches(record, recordName) /\ NeedsUpdate(ip, record)]

\* what one call of CheckRecord does (main.go:92-99): whether it writes the
\* record to os.Stdout and whether it calls SetDomainRecord
CheckRecordPlan(record, recordName, ip) ==
    [report |-> Matches(record, recordName),
     update |-> Matches(record, recordName) /\ NeedsUpdate(ip, record)]

\* CheckDomain trying the apex name once more before the subdomains
Candidates_ApexTwice(dc) == <<"@", "@">> \o dc.Subdomains

\* CheckDomain without its loop over the subdomains
Candidates_ApexOnly(dc) == <<"@">>

\* the names CheckDomain tries for each record (main.go:85-88)
Candidates(dc) == <<"@">> \o dc.Subdomains

\* outcomes of the exchanges: of the GET of the IP discovery endpoint, of the
\* GET of the record list ("apierror": an error document of the provider,
\* which is JSON), and of the PUT of a record ("rejected": the provider
\* answers and refuses, "readerr": the provider applies the change and the
\* read of its answer fails)
IPOutcomes == {"ok", "neterr"}
ListOutcomes == {"ok", "neterr", "badjson", "apierror"}
SetOutcomes == {"applied", "rejected", "neterr", "readerr"}

\* the exchange failed: no transport, or no readable or decodable body
Failed(outcome) == outcome \in {"neterr", "badjson", "readerr"}

\* what the provider does with a PUT
ProviderApplies(outcome) == outcome \in {"applied", "readerr"}

\* GetExternalIP (main.go:103-114)
GetExternalIP(body, outcome) ==
    IF outcome = "ok"
    THEN [ip |-> TrimSpace(body), err |-> FALSE]
    ELSE [ip |-> <<>>, err |-> TRUE]

\* GetDomainRecords with the error of json.Unmarshal unchecked: what was
\* decoded is returned
GetDomainRecords_UncheckedDecode(zone, outcome) ==
    CASE outcome \in {"ok", "badjson"} -> [records |-> zone, err |-> FALSE]
      [] outcome = "apierror"          -> [records |-> <<>>, err |-> FALSE]
      [] OTHER                         -> [records |-> <<>>, err |-> TRUE]

\* GetDomainRecords (main.go:117-143): transport failure and an undecodable
\* body give an error; an error document of the provider decodes into an
\* envelope without records
GetDomainRecords(zone, outcome) ==
    CASE outcome = "ok"       -> [records |-> zone, err |-> FALSE]
      [] outcome = "apierror" -> [records |-> <<>>, err |-> FALSE]
      [] OTHER                -> [records |-> <<>>, err |-> TRUE]

\* SetDomainRecord taking an answer that is not a success for an error
SetDomainRecord_ChecksStatus(outcome) ==
    [err |-> outcome \in {"neterr", "readerr", "rejected"},
     printed |-> outcome \in {"applied", "rejected"}]

\* SetDomainRecord (main.go:146-170): err is non-nil when client.Do or the
\* read of the body fails; otherwise the body is printed and nil returned,
\* whatever the provider answered
SetDomainRecord(outcome) ==
    [err |-> outcome \in {"neterr", "readerr"},
     printed |-> outcome \in {"applied", "rejected"}]

\* CheckDomain without the return of main.go:76
AfterGetExternalIP_NoReturn(err) == "list"

\* where CheckDomain goes after GetExternalIP returned (main.go:74-78)
AfterGetExternalIP(err) == IF err THEN "ipfail" ELSE "list"

\* CheckDomain listing again, within the cycle, when the listing failed
AfterGetDomainRecords_Retry(err, n) ==
    IF err THEN "list" ELSE IF n = 0 THEN "done" ELSE "records"

\* where CheckDomain goes after GetDomainRecords returned n records
\* (main.go:80-84)
AfterGetDomainRecords(err, n) ==
    IF err THEN "listfail" ELSE IF n = 0 THEN "done" ELSE "records"

\* CheckRecord writing the pushed data back into the fetched record
RecordsAfterCheck_WriteBack(records, r, updated, ip) ==
    IF updated THEN [records EXCEPT ![r].Data = ip] ELSE records

\* CheckDomain's domainRecords after CheckRecord was called on its r-th
\* record: the record is passed by value (main.go:84, 92) and nothing is
\* assigned to the slice
RecordsAfterCheck(records, r, updated, ip) == records

\* CheckDomain's loops giving up at the first update call that fails
AfterCheckRecord_StopsOnError(err, last) ==
    IF err \/ last THEN "done" ELSE "records"

\* where CheckDomain goes after a call of CheckRecord: the value SetDomainRecord
\* returned is dropped (main.go:96), the loops go on to their end
\* (main.go:84-89)
AfterCheckRecord(err, last) == IF last THEN "done" ELSE "records"

\* the provider's zone after a PUT of data to record id
PutRecord(zone, id, data) ==
    [ k \in 1..Len(zone) |->
        IF zone[k].ID = id THEN [zone[k] EXCEPT !.Data = data] ELSE zone[k] ]

\* a network call of the cycle: its arguments, whether the exchange failed,
\* and whether the function that made it returned an error
Call(op, domain, id, data, failed, err) ==
    [op |-> op, domain |-> domain, id |-> id, data |-> data, failed |-> failed,
     err |-> err]

\* a line of output
Line(kind, name, data) == [kind |-> kind, name |-> name, data |-> data]

\* -------------------------------------------------------------------- init
Init ==
    /\ cfgSrc \in ConfigSources
    /\ token \in Tokens
    /\ hostBody \in Bodies
    /\ \E z \in Zones :
         provider = [d \in DomainNames |-> IF d = "example.com" THEN z ELSE OrgZone]
    /\ pc = "init"
    /\ exitCode = -1
    /\ config = NoConfig
    /\ domainConfig = 0
    /\ jobs = 0
    /\ pending = 0
    /\ ran = {}
    /\ cpc = "idle"
    /\ externalIP = <<>>
    /\ domainRecords = <<>>
    /\ ri = 0
    /\ ci = 0
    /\ calls = <<>>
    /\ stdout = <<>>
    /\ stderr = <<>>
    /\ prev = NoPrev

\* ----------------------------------------------------------------- startup
\* func init (main.go:47-54)
init ==
    /\ pc = "init"
    /\ LET r == ParseConfig(cfgSrc) IN
         IF r.err
         THEN /\ stderr' = Append(stderr, Line("err", "config", <<>>))
              /\ pc' = "exited"
              /\ exitCode' = 1
              /\ UNCHANGED config
         ELSE /\ config' = r.config
              /\ pc' = "main"
              /\ UNCHANGED << stderr, exitCode >>
    /\ UNCHANGED << envVars, domainConfig, jobs, pending, cycleVars, stdout >>

\* func main (main.go:56-67), up to the point where it blocks or returns.
\* The first iteration of the loop registers one job and then receives from
\* the channel gocron.Start() returns, on which nothing is ever sent.
main ==
    /\ pc = "main"
    /\ IF token # ""
       THEN IF Len(config.Domains) > 0
            THEN /\ domainConfig' = 1
                 /\ jobs' = jobs + 1
                 /\ pc' = "blocked"
                 /\ UNCHANGED << exitCode, stderr >>
            ELSE /\ pc' = "exited"
                 /\ exitCode' = 0
                 /\ UNCHANGED << domainConfig, jobs, stderr >>
       ELSE /\ stderr' = Append(stderr, Line("err", "env", <<>>))
            /\ pc' = "exited"
            /\ exitCode' = 1
            /\ UNCHANGED << domainConfig, jobs >>
    /\ UNCHANGED << envVars, config, pending, cycleVars, stdout >>

\* --------------------------------------------------------------- scheduler
\* the *DomainConfig the registered closure passes to CheckDomain: the
\* closure of main.go:60 holds the loop variable itself, not a copy
Cfg == config.Domains[domainConfig]

Ended == {"idle", "ipfail", "listfail", "done"}
Running == cpc \notin Ended

SetCalls == { k \in 1..Len(calls) : calls[k].op = "set" }

\* the cycle ran to its end on the whole zone of the provider, and the
\* provider holds what each of its update calls asked for
Settled ==
    /\ cpc = "done"
    /\ { domainRecords[r].ID : r \in 1..Len(domainRecords) }
         = { provider[Cfg.Domain][j].ID : j \in 1..Len(provider[Cfg.Domain]) }
    /\ \A k \in SetCalls :
         \E j \in 1..Len(provider[calls[k].domain]) :
            /\ provider[calls[k].domain][j].ID = calls[k].id
            /\ provider[calls[k].domain][j].Data = calls[k].data

\* a scheduler that drops a job whose last run gave up
RunPending_DropsFailedJob ==
    /\ pc = "blocked"
    /\ pending = 0
    /\ ~Running
    /\ cpc \notin {"ipfail", "listfail"}
    /\ pending' = jobs
    /\ ran' = {}
    /\ UNCHANGED << envVars, pc, exitCode, config, domainConfig, jobs, cpc,
                    externalIP, domainRecords, ri, ci, calls, stdout, stderr,
                    prev >>

\* gocron's ticker finds the period elapsed: every registered job is due and
\* is run, one after the other, by the scheduler's goroutine (main.go:60-61)
RunPending ==
    /\ pc = "blocked"
    /\ pending = 0
    /\ ~Running
    /\ pending' = jobs
    /\ ran' = {}
    /\ UNCHANGED << envVars, pc, exitCode, config, domainConfig, jobs, cpc,
                    externalIP, domainRecords, ri, ci, calls, stdout, stderr,
                    prev >>

\* the scheduler calls the job: CheckDomain is entered (main.go:60, 72).
\* A new cycle begins; what is kept of the cycle before is its summary.
CheckDomain ==
    /\ pc = "blocked"
    /\ pending > 0
    /\ ~Running
    /\ pending' = pending - 1
    /\ ran' = ran \cup {Cfg.Domain}
    /\ prev' = [end |-> cpc,
                ip |-> IF cpc = "done" THEN externalIP ELSE <<>>,
                settled |-> Settled,
                updated |-> cpc = "done" /\ SetCalls # {}]
    /\ cpc' = "ip"
    /\ externalIP' = <<>>
    /\ domainRecords' = <<>>
    /\ ri' = 0
    /\ ci' = 0
    /\ calls' = <<>>
    /\ stdout' = <<>>
    /\ stderr' = <<>>
    /\ UNCHANGED << envVars, pc, exitCode, config, domainConfig, jobs >>

\* CheckDomain, the call of GetExternalIP and the code that follows it
\* (main.go:73-78)
CallGetExternalIP ==
    /\ pc = "blocked"
    /\ cpc = "ip"
    /\ \E o \in IPOutcomes :
         LET r == GetExternalIP(hostBody, o) IN
         /\ calls' = Append(calls, Call("ip", "", 0, <<>>, Failed(o), r.err))
         /\ externalIP' = r.ip
         /\ cpc' = AfterGetExternalIP(r.err)
         /\ IF r.err
            THEN /\ stderr' = Append(stderr, Line("err", "ip", <<>>))
                 /\ UNCHANGED stdout
            ELSE /\ stdout' = Append(stdout, Line("ip", "External IP", r.ip))
                 /\ UNCHANGED stderr
    /\ UNCHANGED << envVars, pc, exitCode, config, domainConfig, jobs, pending,
                    ran, domainRecords, ri, ci, prev >>

\* CheckDomain, the call of GetDomainRecords and the code that follows it up
\* to the first record (main.go:79-84)
CallGetDomainRecords ==
    /\ pc = "blocked"
    /\ cpc = "list"
    /\ \E o \in ListOutcomes :
         LET r == GetDomainRecords(provider[Cfg.Domain], o) IN
         /\ calls' = Append(calls, Call("list", Cfg.Domain, 0, <<>>, Failed(o), r.err))
         /\ domainRecords' = r.records
         /\ ri' = 1
         /\ ci' = 0
         /\ cpc' = AfterGetDomainRecords(r.err, Len(r.records))
         /\ IF r.err
            THEN stderr' = Append(stderr, Line("err", "list", <<>>))
            ELSE UNCHANGED stderr
    /\ UNCHANGED << envVars, pc, exitCode, config, domainConfig, jobs, pending,
                    ran, externalIP, stdout, prev >>

\* one call of CheckRecord (main.go:92-99) with the SetDomainRecord exchange
\* it may make, whose result it drops (main.go:96), and the advance of the
\* two loops of main.go:84-89
CheckRecord ==
    /\ pc = "blocked"
    /\ cpc = "records"
    /\ LET record == domainRecords[ri]
           names == Candidates(Cfg)
           recordName == names[ci + 1]
           plan == CheckRecordPlan(record, recordName, externalIP)
           report == IF plan.report
                     THEN << Line("record", record.Name, record.Data) >>
                     ELSE <<>>
       IN
         \E o \in IF plan.update THEN SetOutcomes ELSE {"nocall"} :
           /\ calls' =
                IF plan.update
                THEN Append(calls,
                        Call("set", Cfg.Domain, record.ID, externalIP, Failed(o),
                             SetDomainRecord(o).err))
                ELSE calls
           /\ provider' =
                IF plan.update /\ ProviderApplies(o)
                THEN [provider EXCEPT ![Cfg.Domain] =
                         PutRecord(@, record.ID, externalIP)]
                ELSE provider
           /\ stdout' =
                IF plan.update /\ SetDomainRecord(o).printed
                THEN stdout \o report \o << Line("body", "", <<>>) >>
                ELSE stdout \o report
           /\ domainRecords' =
                RecordsAfterCheck(domainRecords, ri, plan.update, externalIP)
           /\ cpc' = AfterCheckRecord(plan.update /\ SetDomainRecord(o).err,
                                      ci + 1 >= Len(names) /\ ri >= Len(domainRecords))
           /\ IF ci + 1 < Len(names)
              THEN /\ ci' = ci + 1
                   /\ UNCHANGED ri
              ELSE /\ ci' = 0
                   /\ ri' = ri + 1
    /\ UNCHANGED << cfgSrc, token, hostBody, pc, exitCode, config, domainConfig,
                    jobs, pending, ran, externalIP, stderr, prev >>

\* ------------------------------------------------------------- environment
\* the host gets another public address, or the endpoint answers differently.
\* The program reads the endpoint only in CallGetExternalIP, so a change at
\* any other moment is seen as a change just before the next such call.
IPChanges ==
    /\ pc = "blocked"
    /\ cpc = "ip"
    /\ \E b \in Bodies \ {hostBody} : hostBody' = b
    /\ UNCHANGED << cfgSrc, token, provider, pc, exitCode, config, domainConfig,
                    jobs, pending, cycleVars, stdout, stderr >>

Next ==
    \/ init
    \/ main
    \/ RunPending
    \/ CheckDomain
    \/ CallGetExternalIP
    \/ CallGetDomainRecords
    \/ CheckRecord
    \/ IPChanges

Spec == Init /\ [][Next]_vars

\* the scheduler's goroutine keeps running: the ticker fires and a due job
\* is called.  Nothing is assumed of the network.
FairSpec == Spec /\ WF_vars(RunPending) /\ WF_vars(CheckDomain)

\* ------------------------------------------------------------------ claims
SubdomainSet == { Cfg.Subdomains[k] : k \in 1..Len(Cfg.Subdomains) }

\* R is an A record of the apex or of a configured subdomain whose data is
\* not the IP resolved in this cycle
Wanted(R) ==
    /\ R.Type = "A"
    /\ (R.Name = "@" \/ R.Name \in SubdomainSet)
    /\ R.Data # externalIP

HasSet(id) == \E k \in SetCalls : calls[k].id = id

FailedCalls(op) == { k \in 1..Len(calls) : calls[k].op = op /\ calls[k].failed }

RecordLines == { k \in 1..Len(stdout) : stdout[k].kind = "record" }

\* C1: in a cycle that resolved the IP and fetched the records, an update call
\* is issued for a fetched record R if and only if R is of type A, R's name is
\* "@" or a configured subdomain, and R's data differs from the resolved IP;
\* every update call is for a fetched record.
C1_UpdateIff ==
    (pc = "blocked" /\ cpc \in {"records", "done"}) =>
        /\ \A r \in 1..Len(domainRecords) :
             LET R == domainRecords[r] IN
             /\ HasSet(R.ID) => Wanted(R)
             /\ ((cpc = "done" \/ r < ri) /\ Wanted(R)) => HasSet(R.ID)
        /\ \A k \in SetCalls :
             \E r \in 1..Len(domainRecords) : domainRecords[r].ID = calls[k].id

\* a finished cycle that updated a stale A record and left alone a CNAME
\* record with a configured name
C1_Witness ==
    /\ pc = "blocked"
    /\ cpc = "done"
    /\ \E r1, r2 \in 1..Len(domainRecords) :
         /\ domainRecords[r1].Type = "CNAME"
         /\ domainRecords[r1].Name \in SubdomainSet
         /\ ~HasSet(domainRecords[r1].ID)
         /\ Wanted(domainRecords[r2])
         /\ HasSet(domainRecords[r2].ID)

\* C2: every tick reconciles every configured domain: when the jobs of a tick
\* have all run, each domain of the configuration has been reconciled in it.
C2_EveryDomainEachTick ==
    (pc = "blocked" /\ cpc # "idle" /\ pending = 0 /\ ~Running) =>
        ran = { config.Domains[k].Domain : k \in 1..Len(config.Domains) }

\* C3: a cycle whose IP resolution failed makes no record-listing call and no
\* update call.
C3_NoCallAfterIPFailure ==
    FailedCalls("ip") # {} =>
        \A k \in 1..Len(calls) : calls[k].op \notin {"list", "set"}

\* a cycle given up at the IP resolution while the apex record held by the
\* provider differs from what the endpoint would have answered
C3_Witness ==
    /\ pc = "blocked"
    /\ cpc = "ipfail"
    /\ FailedCalls("ip") # {}
    /\ \E j \in 1..Len(provider[Cfg.Domain]) :
         /\ provider[Cfg.Domain][j].Type = "A"
         /\ provider[Cfg.Domain][j].Name = "@"
         /\ provider[Cfg.Domain][j].Data # TrimSpace(hostBody)

\* C4: a cycle whose record listing failed makes no update call and reports
\* no record.
C4_NoUpdateAfterListFailure ==
    FailedCalls("list") # {} => (SetCalls = {} /\ RecordLines = {})

\* a cycle given up at the listing, by an undecodable body or by the
\* transport, while the provider holds a stale apex record
C4_Witness ==
    /\ pc = "blocked"
    /\ cpc = "listfail"
    /\ FailedCalls("list") # {}
    /\ \E j \in 1..Len(provider[Cfg.Domain]) :
         /\ provider[Cfg.Domain][j].Type = "A"
         /\ provider[Cfg.Domain][j].Name = "@"
         /\ provider[Cfg.Domain][j].Data # externalIP

\* C5: with a readable configuration whose domain list is empty the process
\* exits with status 1 and an error message, and makes no network call.
C5_EmptyDomainListIsFatal ==
    (cfgSrc.status = "ok" /\ Len(cfgSrc.config.Domains) = 0
        /\ pc \notin {"init", "main"}) =>
        /\ pc = "exited"
        /\ exitCode = 1
        /\ stderr # <<>>
        /\ calls = <<>>

\* C6: without DO_TOKEN, or with a configuration that cannot be read or
\* parsed, the process writes an error and exits with status 1; no job is
\* ever registered, no cycle starts and no network call is made.
C6_FatalStartup ==
    (token = "" \/ cfgSrc.status # "ok") =>
        /\ pc \in {"init", "main", "exited"}
        /\ pc = "exited" => (exitCode = 1 /\ stderr # <<>>)
        /\ pc # "exited" => ENABLED (init \/ main)
        /\ jobs = 0
        /\ pending = 0
        /\ cpc = "idle"
        /\ calls = <<>>
        /\ stdout = <<>>

\* the process has exited for want of a token, its configuration being good
C6_Witness ==
    /\ pc = "exited"
    /\ exitCode = 1
    /\ token = ""
    /\ cfgSrc.status = "ok"
    /\ Len(config.Domains) > 0

\* C7, as claimed: a finished cycle that follows a finished cycle which issued
\* update calls, with the same resolved IP and nobody else touching the zone,
\* issues no update call.
C7_SecondRunNoUpdates ==
    (pc = "blocked" /\ cpc = "done" /\ prev.end = "done" /\ prev.updated
        /\ prev.ip = externalIP)
        => SetCalls = {}

\* C7, amended: a cycle that follows a cycle which ran to its end on the whole
\* zone, with the same resolved IP and with every update call applied by the
\* provider, issues no update call.
C7_Idempotent ==
    (pc = "blocked" /\ cpc \in {"records", "done"}
        /\ prev.settled /\ prev.ip = externalIP)
        => SetCalls = {}

\* a second cycle that reported a record and pushed nothing, after a first
\* cycle that pushed updates which the provider applied
C7_Witness ==
    /\ pc = "blocked"
    /\ cpc = "done"
    /\ prev.settled
    /\ prev.updated
    /\ prev.ip = externalIP
    /\ RecordLines # {}
    /\ SetCalls = {}

\* C8: every failed call of a cycle has its line on the error stream.
C8_FailuresReported ==
    pc = "blocked" =>
        Cardinality({ k \in 1..Len(calls) : calls[k].failed }) <= Len(stderr)

\* C9: once started the process never leaves the scheduler, and after a cycle
\* given up at the IP resolution or at the listing the job is called again.
C9_SchedulerSurvivesFailure ==
    /\ [][pc = "blocked" => pc' = "blocked"]_vars
    /\ (pc = "blocked" /\ cpc \in {"ipfail", "listfail"})
          ~> (pc = "blocked" /\ cpc = "ip" /\ Cfg.Domain \in ran)

\* a cycle has just been entered after one that was given up
C9_Witness ==
    /\ pc = "blocked"
    /\ cpc = "ip"
    /\ prev.end \in {"ipfail", "listfail"}

Reports(n, d) ==
    Cardinality({ k \in RecordLines : stdout[k].name = n /\ stdout[k].data = d })

\* number of candidate names ("@", then the subdomains) equal to n
MatchCount(n) ==
    (IF n = "@" THEN 1 ELSE 0)
      + Cardinality({ k \in 1..Len(Cfg.Subdomains) : Cfg.Subdomains[k] = n })

\* C10: a finished cycle has written, for every name and data, one line per
\* fetched A record of that name and data and per candidate name equal to it,
\* stale or not; nothing else is reported, so a record of another type or of
\* no candidate name is never reported.
C10_ReportedOncePerMatch ==
    (pc = "blocked" /\ cpc = "done") =>
        \A nd \in { << domainRecords[r].Name, domainRecords[r].Data >> :
                      r \in 1..Len(domainRecords) }
                  \cup { << stdout[k].name, stdout[k].data >> : k \in RecordLines } :
            Reports(nd[1], nd[2]) =
                MatchCount(nd[1]) *
                Cardinality({ r \in 1..Len(domainRecords) :
                                /\ domainRecords[r].Type = "A"
                                /\ domainRecords[r].Name = nd[1]
                                /\ domainRecords[r].Data = nd[2] })

\* a finished cycle in which an apex record that needed no update matched
\* two candidate names and was reported twice, and another record not at all
C10_Witness ==
    /\ pc = "blocked"
    /\ cpc = "done"
    /\ \E r1, r2 \in 1..Len(domainRecords) :
         /\ domainRecords[r1].Type = "A"
         /\ domainRecords[r1].Data = externalIP
         /\ MatchCount(domainRecords[r1].Name) = 2
         /\ Reports(domainRecords[r1].Name, domainRecords[r1].Data) = 2
         /\ MatchCount(domainRecords[r2].Name) = 0
         /\ Reports(domainRecords[r2].Name, domainRecords[r2].Data) = 0

\* the update calls a finished cycle owes: one per fetched stale A record and
\* per candidate name equal to its name
OwedUpdates ==
    { << r, c >> \in (1..Len(domainRecords)) \X (0..Len(Cfg.Subdomains)) :
        /\ Wanted(domainRecords[r])
        /\ domainRecords[r].Name = (IF c = 0 THEN "@" ELSE Cfg.Subdomains[c]) }

\* C11: the failure of an update call does not end the cycle: a finished cycle
\* has gone through all its records and has made every update call it owes,
\* whatever became of the earlier ones.
C11_FailureDoesNotAbort ==
    (pc = "blocked" /\ cpc = "done" /\ FailedCalls("list") = {}) =>
        /\ ri = Len(domainRecords) + 1
        /\ Cardinality(SetCalls) = Cardinality(OwedUpdates)
        /\ \A r \in 1..Len(domainRecords) :
             Wanted(domainRecords[r]) => HasSet(domainRecords[r].ID)

\* a finished cycle whose first update call failed and which then made an
\* update call for another record
C11_Witness ==
    /\ pc = "blocked"
    /\ cpc = "done"
    /\ \E k1, k2 \in SetCalls :
         /\ k1 < k2
         /\ calls[k1].failed
         /\ calls[k1].id # calls[k2].id

\* no fetched record is an A record named "@" or as a configured subdomain
NoMatch ==
    \A r \in 1..Len(domainRecords) :
        ~(domainRecords[r].Type = "A" /\ MatchCount(domainRecords[r].Name) > 0)

\* C12: a cycle that resolved the IP and fetched the records, none of which
\* matches a candidate name, makes no update call, reports no record (its
\* only output is the line of the resolved IP) and writes nothing to the
\* error stream.
C12_NoMatchNoEffect ==
    (pc = "blocked" /\ cpc = "done" /\ NoMatch) =>
        /\ SetCalls = {}
        /\ RecordLines = {}
        /\ stdout = << Line("ip", "External IP", externalIP) >>
        /\ stderr = <<>>

\* a finished cycle on two fetched records, one of them an A record whose
\* data is not the resolved IP, of which none matches
C12_Witness ==
    /\ pc = "blocked"
    /\ cpc = "done"
    /\ NoMatch
    /\ Len(domainRecords) = 2
    /\ \E r \in 1..Len(domainRecords) :
         domainRecords[r].Type = "A" /\ domainRecords[r].Data # externalIP

\* C13: the calls of a cycle come in order: one IP resolution first, then at
\* most one record listing, made only when the resolution succeeded, then
\* update calls only; records are evaluated, reported and updated only when
\* both succeeded, and neither the IP nor the list is fetched again.
C13_CallOrder ==
    pc = "blocked" =>
        /\ \A k \in 1..Len(calls) :
             /\ calls[k].op = "ip" <=> k = 1
             /\ calls[k].op = "list" <=> k = 2
             /\ calls[k].op = "set" <=> k > 2
        /\ cpc \in {"list", "records", "done", "ipfail", "listfail"}
              => Len(calls) >= 1
        /\ cpc \in {"records", "done", "listfail"} => Len(calls) >= 2
        /\ Len(calls) >= 2 => ~calls[1].failed
        /\ (cpc = "records" \/ SetCalls # {} \/ RecordLines # {})
              => (Len(calls) >= 2 /\ ~calls[1].failed /\ ~calls[2].failed)

\* a finished cycle that made two update calls after its two fetches
C13_Witness ==
    /\ pc = "blocked"
    /\ cpc = "done"
    /\ Len(calls) >= 4
    /\ Cardinality(RecordLines) >= 2

BodyLines(out) == { k \in 1..Len(out) : out[k].kind = "body" }

\* C14: SetDomainRecord returns an error exactly when the exchange failed in
\* transport or in the read of the body; when it did not, whatever the
\* provider answered, nil is returned and one line, the body, is written to
\* os.Stdout; nothing else of the program depends on the answer.
C14_UpdateResult ==
    [][ (Len(calls') = Len(calls) + 1 /\ calls'[Len(calls')].op = "set") =>
          LET c == calls'[Len(calls')] IN
          /\ c.err <=> c.failed
          /\ ~c.failed =>
               /\ Cardinality(BodyLines(stdout')) = Cardinality(BodyLines(stdout)) + 1
               /\ stdout'[Len(stdout')].kind = "body"
          /\ c.failed => BodyLines(stdout') = BodyLines(stdout)
          /\ stderr' = stderr
          /\ externalIP' = externalIP
          /\ domainRecords' = domainRecords
      ]_vars

\* an update call has just returned nil and its body has been written, the
\* provider having refused it: the record still holds other data
C14_Witness ==
    /\ pc = "blocked"
    /\ calls # <<>>
    /\ LET c == calls[Len(calls)] IN
         /\ c.op = "set"
         /\ ~c.err
         /\ stdout # <<>>
         /\ stdout[Len(stdout)].kind = "body"
         /\ \E j \in 1..Len(provider[c.domain]) :
              /\ provider[c.domain][j].ID = c.id
              /\ provider[c.domain][j].Data # c.data

\* the update calls, as << id, data >>, that the loops of a cycle make on the
\* fetched records, the resolved ip and the DomainConfig dc, in their order
UpdatesOf(records, ip, dc) ==
    LET m == 1 + Len(dc.Subdomains)
        name(c) == IF c = 0 THEN "@" ELSE dc.Subdomains[c]
        pairs == [ p \in 1..(Len(records) * m) |->
                     << ((p - 1) \div m) + 1, (p - 1) % m >> ]
        due(x) == /\ records[x[1]].Type = "A"
                  /\ records[x[1]].Name = name(x[2])
                  /\ records[x[1]].Data # ip
        sel == SelectSeq(pairs, due)
    IN  [ k \in 1..Len(sel) |-> << records[sel[k][1]].ID, ip >> ]

\* C15: nothing is carried from one cycle to the next and nothing fetched is
\* changed locally: a cycle starts with no IP, no records and no calls, takes
\* its records from the provider's answer of its own listing, keeps the
\* records and the IP as fetched while it goes through them, and the update
\* calls of a finished cycle are those that its own records, its own IP and
\* the configuration determine.
C15_NoStateAcrossCycles ==
    /\ []((pc = "blocked" /\ cpc = "done") =>
            [ k \in 1..(Len(calls) - 2) |-> << calls[k + 2].id, calls[k + 2].data >> ]
               = UpdatesOf(domainRecords, externalIP, Cfg))
    /\ [][ /\ (cpc # "ip" /\ cpc' = "ip") =>
               (externalIP' = <<>> /\ domainRecords' = <<>> /\ calls' = <<>>)
           /\ (cpc = "list" /\ cpc' # "list") =>
               domainRecords' \in {provider[Cfg.Domain], <<>>}
           /\ cpc = "records" =>
               (domainRecords' = domainRecords /\ externalIP' = externalIP)
         ]_vars

\* a finished cycle that pushed the same record twice: the first push, which
\* the provider applied, did not change the fetched record
C15_Witness ==
    /\ pc = "blocked"
    /\ cpc = "done"
    /\ \E k1, k2 \in SetCalls :
         /\ k1 < k2
         /\ calls[k1].id = calls[k2].id
         /\ \E r \in 1..Len(domainRecords) :
              /\ domainRecords[r].ID = calls[k1].id
              /\ domainRecords[r].Data # externalIP
         /\ \E j \in 1..Len(provider[Cfg.Domain]) :
              /\ provider[Cfg.Domain][j].ID = calls[k1].id
              /\ provider[Cfg.Domain][j].Data = externalIP

\* t is the body b without the white space at its two ends
IsTrimOf(t, b) ==
    /\ \E i \in 1..(Len(b) + 1), j \in 0..Len(b) :
         /\ t = SubSeq(b, i, j)
         /\ \A x \in 1..(i - 1) : b[x] \in {" ", "\n"}
         /\ \A x \in (j + 1)..Len(b) : b[x] \in {" ", "\n"}
    /\ t # <<>> => (t[1] \notin {" ", "\n"} /\ t[Len(t)] \notin {" ", "\n"})

\* C16: every update call of a cycle names the domain of the DomainConfig
\* being reconciled (the one whose records were listed) and the id of a
\* fetched A record whose data is not the resolved IP, and carries as data the
\* IP resolved in this cycle, which is the endpoint's body without the white
\* space around it, taken as it is.
C16_UpdateTarget ==
    pc = "blocked" =>
        \A k \in SetCalls :
            /\ calls[k].domain = Cfg.Domain
            /\ calls[k].domain = calls[2].domain
            /\ \E r \in 1..Len(domainRecords) :
                 /\ domainRecords[r].ID = calls[k].id
                 /\ domainRecords[r].Type = "A"
                 /\ domainRecords[r].Data # externalIP
            /\ calls[k].data = externalIP
            /\ IsTrimOf(calls[k].data, hostBody)

\* an update call made in a cycle whose endpoint answered with white space
\* on both sides of the address
C16_Witness ==
    /\ pc = "blocked"
    /\ SetCalls # {}
    /\ hostBody # <<>>
    /\ hostBody[1] = " "
    /\ hostBody[Len(hostBody)] = "\n"
    /\ \E k \in SetCalls : calls[k].data = <<"1">>

\* every A record of the reconciled zone named "@" or as a configured
\* subdomain holds ip at the provider
Converged(ip) ==
    \A j \in 1..Len(provider[Cfg.Domain]) :
        LET Z == provider[Cfg.Domain][j] IN
        (Z.Type = "A" /\ (Z.Name = "@" \/ Z.Name \in SubdomainSet)) => Z.Data = ip

\* a finished cycle all of whose calls succeeded: the listing gave the zone
\* and the provider applied every update
CleanCycle ==
    /\ cpc = "done"
    /\ \A k \in 1..Len(calls) : ~calls[k].failed
    /\ Settled

\* C17: when a cycle has finished with every call succeeding and every update
\* applied, every A record of the zone named "@" or as a configured subdomain
\* holds the IP the cycle resolved; and in a cycle that follows such a cycle
\* and resolves the same IP, this is true from the resolution on.
C17_Convergence ==
    pc = "blocked" =>
        /\ CleanCycle => Converged(externalIP)
        /\ (prev.settled /\ cpc \in {"list", "records", "done", "listfail"}
               /\ externalIP = prev.ip)
              => Converged(externalIP)

\* a finished cycle, all calls succeeding, that pushed two records
C17_Witness ==
    /\ pc = "blocked"
    /\ CleanCycle
    /\ \E k1, k2 \in SetCalls : calls[k1].id # calls[k2].id
    /\ Converged(externalIP)

\* the configured subdomains hold neither "@" nor a name twice, so "@"
\* followed by them is a list of pairwise distinct names
DistinctNames ==
    /\ "@" \notin SubdomainSet
    /\ \A i, j \in 1..Len(Cfg.Subdomains) :
         Cfg.Subdomains[i] = Cfg.Subdomains[j] => i = j

\* C18: when "@" and the configured subdomains are pairwise distinct, at any
\* point of a cycle no fetched record has two update calls, no name and data
\* has more report lines than there are fetched records of that name and
\* data, and neither the update calls nor the report lines outnumber the
\* fetched records.
C18_AtMostOncePerRecord ==
    (pc = "blocked" /\ DistinctNames) =>
        /\ \A k1, k2 \in SetCalls : calls[k1].id = calls[k2].id => k1 = k2
        /\ \A k \in RecordLines :
             Reports(stdout[k].name, stdout[k].data) <=
                 Cardinality({ r \in 1..Len(domainRecords) :
                                 /\ domainRecords[r].Name = stdout[k].name
                                 /\ domainRecords[r].Data = stdout[k].data })
        /\ Cardinality(SetCalls) <= Len(domainRecords)
        /\ Cardinality(RecordLines) <= Len(domainRecords)

\* a finished cycle over "@" and one subdomain in which every one of two
\* fetched records was reported and pushed, once each
C18_Witness ==
    /\ pc = "blocked"
    /\ cpc = "done"
    /\ DistinctNames
    /\ Len(Cfg.Subdomains) >= 1
    /\ Len(domainRecords) = 2
    /\ Cardinality(SetCalls) = 2
    /\ Cardinality(RecordLines) = 2

====
